---- MODULE Spec2Model ----
(***************************************************************************)
(* Model of src/main.py (MouseToGamepadGUI): the raw-input accumulator,    *)
(* the start / pause / stop state machine run by the Tk main thread, and   *)
(* the control_loop threads that turn drained mouse deltas into the left   *)
(* stick of the virtual gamepad.                                           *)
(*                                                                         *)
(* Numbers.  Stick values (raw_x, smooth_x, joystick_x, the sink) are      *)
(* fixed-point integers: unit stands for 1.0.  decay_rate, deadzone,       *)
(* smoothing and the control points are integers in hundredths, which is   *)
(* the resolution of the sliders.  Every product is computed exactly and   *)
(* truncated toward zero once, where the float code rounds.  A run keeps   *)
(* one resolution: unit is Unit where threads interleave and FineUnit      *)
(* where one pipeline is followed value by value.                          *)
(*                                                                         *)
(* Threads.  The Tk main thread runs the command handlers and the raw      *)
(* input window procedure, one at a time (gui_pc).  Every start creates a  *)
(* control_loop thread; a thread's position is threads[t].pc.              *)
(***************************************************************************)
EXTENDS Integers, Sequences, FiniteSets, TLC

\* ---------------------------------------------------------------- bounds
Unit == 4            \* fixed-point value of 1.0
FineUnit == 20       \* fixed-point value of 1.0 in the single-pipeline runs
MaxThreads == 2      \* control_loop threads alive at once
MaxCmds == 3         \* start / stop / pause commands issued
MaxEdits == 1        \* configuration edits issued
MaxInputs == 1       \* WM_INPUT messages delivered
MaxDelta == 400      \* magnitude of one delivered mouse delta
CoreCmds == 3        \* commands issued under CoreSpec
CoreInputs == 2      \* WM_INPUT messages delivered under CoreSpec
LiveCmds == 2        \* commands issued under LiveSpec
LiveInputs == 1      \* WM_INPUT messages delivered under LiveSpec
ConfigEdits == 2     \* configuration edits issued under ConfigSpec
CurveEdits == 1      \* configuration edits issued under CurveSpec
AxisEdits == 1       \* axis checkbutton presses under AxisSpec
QuitCmds == 3        \* commands issued under QuitSpec, the quit apart
QuitInputs == 1      \* WM_INPUT messages delivered under QuitSpec

\* ------------------------------------------------------- program constants
GainNum == 5         \* 0.00005 = GainNum / GainDen
GainDen == 100000
SensMin == 2
SensMax == 100
SensStep == 2
DefaultSensitivity == 50
DefaultDecay == 85
DefaultDeadzone == 5
DefaultSmoothing == 30
DecayMin == 50       \* the sliders' from_ and to, in hundredths
DecayMax == 99
DeadzoneMax == 20
SmoothingMax == 95
DragEps == 1         \* 0.01, the spacing on_curve_drag keeps

VARIABLES
    running, paused,                  \* self.running, self.paused
    cursor_lock_supported,            \* self.cursor_lock_supported
    cursor_locked,                    \* self.cursor_locked
    unit,                             \* fixed-point value of 1.0 in this run
    raw_dx, raw_dy, raw_input_lock,   \* the DeltaAccumulator and its lock
    raw_x, raw_y,                     \* leaky-integrator accumulators
    smooth_x, smooth_y,               \* smoothing buffers
    joystick_x, joystick_y,           \* last smoothed pair
    sink,                             \* last pair given to the gamepad
    sensitivity, decay_rate, deadzone, smoothing,
    x_axis_enabled, y_axis_enabled, invert_x, invert_y,
    control_points, spline,
    threads,                          \* control_loop threads
    gui_pc, gui_arg,                  \* Tk main thread: handler position
    budget,                           \* commands, edits, inputs still allowed
    hist                              \* history variables of the properties

cfg_vars == <<sensitivity, decay_rate, deadzone, smoothing,
              x_axis_enabled, y_axis_enabled, invert_x, invert_y,
              control_points, spline>>
axis_vars == <<raw_x, raw_y, smooth_x, smooth_y, joystick_x, joystick_y>>
acc_vars == <<raw_dx, raw_dy, raw_input_lock>>
mode_vars == <<running, paused, cursor_lock_supported, cursor_locked, unit>>
vars == <<mode_vars, acc_vars, axis_vars, sink, cfg_vars, threads,
          gui_pc, gui_arg, budget, hist>>

Threads == 1..MaxThreads

\* ------------------------------------------------------------- arithmetic
Abs(v) == IF v < 0 THEN -v ELSE v
Sgn(v) == IF v < 0 THEN -1 ELSE 1
Max(a, b) == IF a > b THEN a ELSE b
Min(a, b) == IF a < b THEN a ELSE b

\* n / d truncated toward zero (d > 0)
Trunc(n, d) == Sgn(n) * (Abs(n) \div d)

\* max(-1.0, min(1.0, v))
Clamp(v) == Max(-unit, Min(unit, v))

\* ------------------------------------------------------- pure pipeline
\* Integrate with the final clamp forgotten
Integrate_NoClamp(raw, d, sens, decay) ==
    Trunc((raw * GainDen + d * sens * GainNum * unit) * decay, GainDen * 100)

\* Integrate with the decay of lines 1012 / 1024 forgotten
Integrate_NoDecay(raw, d, sens, decay) ==
    Clamp(Trunc(raw * GainDen + d * sens * GainNum * unit, GainDen))

\* lines 1011-1013 / 1023-1025: raw += d * sens * 0.00005; raw *= decay;
\* raw = max(-1.0, min(1.0, raw)).  decay is in hundredths.
Integrate(raw, d, sens, decay) ==
    Clamp(Trunc((raw * GainDen + d * sens * GainNum * unit) * decay,
                GainDen * 100))

\* The interpolant interp1d(kind='cubic') builds for five control points at
\* inputs 0, 0.25, 0.5, 0.75, 1: the not-a-knot spline, one cubic on
\* [0, 0.5] and one on [0.5, 1] that agree in value, slope and curvature at
\* 0.5.  With x = 4 * n / unit (n is the argument in fixed point) it is
\*   y0 + d1 x + d2 x(x-1)/2 + a x(x-1)(x-2) + c max(x-2,0)^3,
\* a = (8 r3 - r4) / 24, c = (r4 - 4 r3) / 4.  The value is returned in
\* fixed point (control point outputs are in hundredths).
SplineEval(pts, n) ==
    LET y0 == pts[1][2]
        y1 == pts[2][2]
        y2 == pts[3][2]
        y3 == pts[4][2]
        y4 == pts[5][2]
        d1 == y1 - y0
        d2 == y2 - 2 * y1 + y0
        r3 == y3 - 3 * y2 + 3 * y1 - y0
        r4 == y4 - 6 * y2 + 8 * y1 - 3 * y0
        u  == 4 * n
        U  == unit
        v  == Max(u - 2 * U, 0)
        num == 12 * U * (2 * U * U * y0 + 2 * U * d1 * u + d2 * u * (u - U))
               + (8 * r3 - r4) * u * (u - U) * (u - 2 * U)
               + 6 * (r4 - 4 * r3) * v * v * v
    IN  Trunc(num, 2400 * U * U)

\* apply_response_curve(value): deadzone, renormalisation, interpolant
\* clamped to [0, 1]; identity when no interpolant has been built.
apply_response_curve(value, dz, sp) ==
    LET abs_value == Abs(value)
        sign == IF value >= 0 THEN 1 ELSE -1
        normalized == Trunc(abs_value * 100 - dz * unit, 100 - dz)
        result == IF sp # <<>>
                  THEN Max(0, Min(unit, SplineEval(sp, normalized)))
                  ELSE normalized
    IN  IF abs_value * 100 < dz * unit THEN 0 ELSE sign * result

\* inputs of a point list
Xs(pts) == {pts[i][1] : i \in 1..Len(pts)}

HasDuplicateInputs(pts) == Cardinality(Xs(pts)) < Len(pts)

\* interp1d(kind='cubic') raises for fewer than four points and for
\* repeated inputs
CubicFails(pts) == Len(pts) < 4 \/ HasDuplicateInputs(pts)

\* interp1d(kind='linear') accepts any list of two or more points
LinearFails(pts) == Len(pts) < 2

\* update_spline with the except branch re-raising
update_spline_raises_NoFallback(pts) == Len(pts) >= 2 /\ CubicFails(pts)

\* update_spline(): an exception reaches the caller only if the linear
\* construction of the except branch (line 759) fails as well
update_spline_raises(pts) ==
    Len(pts) >= 2 /\ CubicFails(pts) /\ LinearFails(pts)

\* the inputs of the presets and of the defaults: 0, 0.25, 0.5, 0.75, 1
OnPresetGrid(pts) ==
    Len(pts) = 5 /\ \A i \in 1..5 : pts[i][1] = 25 * (i - 1)

\* interp1d sorts its points by input (assume_sorted=False)
SortByX(pts) ==
    [k \in 1..Len(pts) |->
        pts[CHOOSE i \in 1..Len(pts) :
              Cardinality({j \in 1..Len(pts) : pts[j][1] < pts[i][1]}) = k - 1]]

\* interp1d(kind='linear', fill_value='extrapolate') over sorted points
\* with distinct inputs: the segment searchsorted selects, extended beyond
\* both ends
LinearEval(pts, n) ==
    LET above == {i \in 2..Len(pts) : n * 100 <= pts[i][1] * unit}
        hi == IF above = {} THEN Len(pts)
              ELSE CHOOSE i \in above : \A j \in above : i <= j
        lo == hi - 1
        w  == pts[hi][1] - pts[lo][1]
    IN  Trunc(pts[lo][2] * w * unit
                + (pts[hi][2] - pts[lo][2]) * (n * 100 - pts[lo][1] * unit),
              100 * w)

\* a float about which nothing is known: below 0, inside [0, 1], above 1
\* (a nan is clamped to 1 by max(0, min(1, nan)))
AnyValue == -1..(unit + 1)

\* float(self.spline(normalized)), line 864.  The value is computed for
\* the linear interpolant and for the cubic over the preset inputs.  A
\* cubic over other inputs returns each point's output at that point's
\* input and is left open elsewhere, as is a linear interpolant over
\* repeated inputs (it divides by zero).
SplineValues(sp, n) ==
    IF CubicFails(sp)
    THEN IF HasDuplicateInputs(sp) THEN AnyValue
         ELSE {LinearEval(SortByX(sp), n)}
    ELSE IF OnPresetGrid(sp) THEN {SplineEval(sp, n)}
    ELSE LET hit == {i \in 1..Len(sp) : sp[i][1] * unit = n * 100}
         IN  IF hit # {} THEN {Trunc(sp[i][2] * unit, 100) : i \in hit}
             ELSE AnyValue

\* apply_response_curve returning result instead of sign * result
ResponseValues_NoSign(value, dz, sp) ==
    LET abs_value == Abs(value)
        normalized == Trunc(abs_value * 100 - dz * unit, 100 - dz)
    IN  IF abs_value * 100 < dz * unit THEN {0}
        ELSE IF sp = <<>> THEN {normalized}
        ELSE {Max(0, Min(unit, r)) : r \in SplineValues(sp, normalized)}

\* the values apply_response_curve(value) may return: the one computed
\* value where the cubic over the preset inputs (or no interpolant) is
\* used, else sign * max(0, min(1, result)) for every result of the
\* interpolant
ResponseValues(value, dz, sp) ==
    LET abs_value == Abs(value)
        sign == IF value >= 0 THEN 1 ELSE -1
        normalized == Trunc(abs_value * 100 - dz * unit, 100 - dz)
    IN  IF \/ sp = <<>>
           \/ abs_value * 100 < dz * unit
           \/ (~CubicFails(sp) /\ OnPresetGrid(sp))
        THEN {apply_response_curve(value, dz, sp)}
        ELSE {sign * Max(0, Min(unit, r)) : r \in SplineValues(sp, normalized)}

\* apply_smoothing with alpha = 1.0 + smooth_factor
SmoothStep_WrongAlpha(smooth, current, f) ==
    Trunc(smooth * f + current * (100 + f), 100)

\* one axis of apply_smoothing: smooth * f + current * (1 - f)
SmoothStep(smooth, current, f) ==
    Trunc(smooth * f + current * (100 - f), 100)

\* ------------------------------------------------------- configuration
DefaultPoints == <<<<0, 0>>, <<25, 25>>, <<50, 50>>, <<75, 75>>, <<100, 100>>>>

Preset(name) ==
    CASE name = "linear"     -> <<<<0, 0>>, <<25, 25>>, <<50, 50>>, <<75, 75>>, <<100, 100>>>>
      [] name = "aggressive" -> <<<<0, 0>>, <<25, 10>>, <<50, 30>>, <<75, 65>>, <<100, 100>>>>
      [] name = "precise"    -> <<<<0, 0>>, <<25, 35>>, <<50, 60>>, <<75, 82>>, <<100, 100>>>>
      [] name = "s-curve"    -> <<<<0, 0>>, <<25, 15>>, <<50, 50>>, <<75, 85>>, <<100, 100>>>>

PresetNames == {"linear", "aggressive", "precise", "s-curve"}

\* slider positions the model tries (each slider covers its whole range)
SensitivityValues == {SensMin, DefaultSensitivity, SensMax}
DecayValues == {50, DefaultDecay, 99}
DeadzoneValues == {0, DefaultDeadzone, 20}
SmoothingValues == {0, DefaultSmoothing, 95}

\* mouse deltas one WM_INPUT message may carry
InputDeltas == {<<MaxDelta, 0>>, <<0, MaxDelta>>, <<-MaxDelta, -MaxDelta>>}

\* ------------------------------------------------- persisted settings
\* self.default_settings, lines 80-90
default_settings ==
    [sensitivity |-> DefaultSensitivity, decay_rate |-> DefaultDecay,
     deadzone |-> DefaultDeadzone, smoothing |-> DefaultSmoothing,
     x_axis_enabled |-> TRUE, y_axis_enabled |-> TRUE,
     invert_x |-> FALSE, invert_y |-> FALSE,
     control_points |-> DefaultPoints]

\* the Tk variables and self.control_points before load_settings runs
unset_settings ==
    [sensitivity |-> 0, decay_rate |-> 0, deadzone |-> 0, smoothing |-> 0,
     x_axis_enabled |-> FALSE, y_axis_enabled |-> FALSE,
     invert_x |-> FALSE, invert_y |-> FALSE, control_points |-> <<>>]

\* What ~/mouse_gamepad_settings.json may hold.  kind: no file, a file
\* json.load rejects, or a JSON object; keys: the keys the object has;
\* values: their values; entries: whether the control point entries are
\* two-element lists of numbers ("ok"), two-element lists float() rejects
\* ("nonnumeric"), or not two-element lists ("malformed").
Document(kind, keys, values, entries) ==
    [kind |-> kind, keys |-> keys, values |-> values, entries |-> entries]

NoFile == Document("missing", {}, default_settings, "ok")

AllKeys == DOMAIN default_settings

Documents ==
    { NoFile,
      Document("corrupt", {}, default_settings, "ok"),
      \* what save_settings wrote after some edits
      Document("object", AllKeys,
               [default_settings EXCEPT !.sensitivity = 70, !.decay_rate = 90,
                   !.deadzone = 10, !.smoothing = 50, !.invert_y = TRUE,
                   !.control_points = Preset("aggressive")], "ok"),
      \* values above the sliders' ranges
      Document("object", AllKeys \ {"control_points"},
               [default_settings EXCEPT !.sensitivity = 500,
                   !.decay_rate = 150, !.deadzone = 50, !.smoothing = 100],
               "ok"),
      \* values below the sliders' ranges, one key only partly present
      Document("object", {"sensitivity", "decay_rate", "smoothing"},
               [default_settings EXCEPT !.sensitivity = 0, !.decay_rate = 10,
                   !.smoothing = -10], "ok"),
      \* a control point list that is too short
      Document("object", {"sensitivity", "control_points"},
               [default_settings EXCEPT !.sensitivity = 70,
                   !.control_points = <<<<0, 0>>>>], "ok"),
      \* control point entries that are not pairs
      Document("object", {"deadzone", "control_points"},
               [default_settings EXCEPT !.deadzone = 10,
                   !.control_points = Preset("precise")], "malformed"),
      \* control point entries float() rejects
      Document("object", AllKeys,
               [default_settings EXCEPT !.sensitivity = 70, !.decay_rate = 90,
                   !.x_axis_enabled = FALSE,
                   !.control_points = Preset("precise")], "nonnumeric"),
      \* two points, the straight line
      Document("object", {"control_points"},
               [default_settings EXCEPT
                   !.control_points = <<<<0, 0>>, <<100, 100>>>>], "ok"),
      \* three points
      Document("object", {"control_points"},
               [default_settings EXCEPT
                   !.control_points = <<<<0, 0>>, <<50, 80>>, <<100, 100>>>>],
               "ok"),
      \* pairs of numbers that are no response curve
      Document("object", {"control_points"},
               [default_settings EXCEPT
                   !.control_points = <<<<100, 20>>, <<0, 50>>, <<40, 150>>>>],
               "ok") }

\* load_settings with `except: pass`: what was set before the exception
\* stays, the rest keeps its initial value
load_settings_NoFallback(doc) ==
    LET get(k) == IF k \in doc.keys THEN doc.values[k] ELSE default_settings[k]
        loaded == [k \in AllKeys |-> get(k)]
        pts == get("control_points")
    IN  IF doc.kind = "missing" THEN default_settings
        ELSE IF doc.kind = "corrupt" THEN unset_settings
        ELSE IF Len(pts) >= 2 /\ doc.entries # "malformed"
        THEN IF doc.entries = "nonnumeric"
             THEN [loaded EXCEPT !.control_points = <<>>]
             ELSE loaded
        ELSE [loaded EXCEPT !.control_points = DefaultPoints]

\* load_settings, lines 346-374: the defaults when there is no file or
\* when anything raises (json.load, settings.get on a non-object, float()
\* of an entry); else each key or its default, and the loaded control
\* points only if they are two or more two-element lists.  No value is
\* range-checked here.
load_settings(doc) ==
    LET get(k) == IF k \in doc.keys THEN doc.values[k] ELSE default_settings[k]
        loaded == [k \in AllKeys |-> get(k)]
        pts == get("control_points")
    IN  IF doc.kind # "object" THEN default_settings
        ELSE IF Len(pts) >= 2 /\ doc.entries # "malformed"
        THEN IF doc.entries = "nonnumeric" THEN default_settings ELSE loaded
        ELSE [loaded EXCEPT !.control_points = DefaultPoints]

\* a Scale that leaves its variable as it finds it
ScaleVariable_NoClamp(v, from, to) == v

\* tk.Scale(from_=, to=, variable=): when the widget is created, and on
\* every later write of the variable, Tk brings the variable into the
\* scale's range
ScaleVariable(v, from, to) == Max(from, Min(to, v))

\* setup_gui / build_interface, lines 624-660: the four sliders are created
\* over the loaded variables
build_interface(cfg) ==
    [cfg EXCEPT
        !.sensitivity = ScaleVariable(cfg.sensitivity, SensMin, SensMax),
        !.decay_rate = ScaleVariable(cfg.decay_rate, DecayMin, DecayMax),
        !.deadzone = ScaleVariable(cfg.deadzone, 0, DeadzoneMax),
        !.smoothing = ScaleVariable(cfg.smoothing, 0, SmoothingMax)]

\* ---------------------------------------------------------------- state
NoThread == [pc |-> "none", act |-> FALSE, dx |-> 0, dy |-> 0,
             sens |-> 0, decay |-> 0, jx |-> 0, jy |-> 0,
             entered |-> FALSE, wz |-> FALSE,
             axes |-> <<TRUE, TRUE>>, out |-> <<0, 0>>, thru |-> <<>>]

LockFree == 0
GuiHolder == -1

\* __init__: the settings are loaded, the interface is built over them,
\* nothing is running and there is no interpolant yet (initialize_curve
\* runs 100 ms later); raw input registration may or may not have
\* succeeded.  u is the resolution of the run, b its budget.
Startup(doc, u, b) ==
    /\ running = FALSE
    /\ paused = FALSE
    /\ cursor_lock_supported \in BOOLEAN
    /\ cursor_locked = FALSE
    /\ unit = u
    /\ raw_dx = 0 /\ raw_dy = 0 /\ raw_input_lock = LockFree
    /\ raw_x = 0 /\ raw_y = 0
    /\ smooth_x = 0 /\ smooth_y = 0
    /\ joystick_x = 0 /\ joystick_y = 0
    /\ sink = <<0, 0>>
    /\ LET cfg == build_interface(load_settings(doc))
       IN  /\ sensitivity = cfg.sensitivity
           /\ decay_rate = cfg.decay_rate
           /\ deadzone = cfg.deadzone
           /\ smoothing = cfg.smoothing
           /\ x_axis_enabled = cfg.x_axis_enabled
           /\ y_axis_enabled = cfg.y_axis_enabled
           /\ invert_x = cfg.invert_x
           /\ invert_y = cfg.invert_y
           /\ control_points = cfg.control_points
    /\ spline = <<>>
    /\ threads = [t \in Threads |-> NoThread]
    /\ gui_pc = "idle"
    /\ gui_arg = <<0, 0>>
    /\ budget = b
    /\ hist = [written |-> <<0, 0>>, drained |-> <<0, 0>>,
               snap |-> <<>>, last_cmd |-> "none",
               resumed_same |-> TRUE,
               doc |-> doc, raised |-> FALSE,
               free |-> <<0, 0>>,
               quit |-> [from |-> "none", stops |-> 0]]

\* a session that finds no settings file
InitWith(b) == Startup(NoFile, Unit, b)

Init == InitWith([cmds |-> MaxCmds, edits |-> MaxEdits, inputs |-> MaxInputs])

\* ------------------------------------------------- cursor confinement
\* lock_cursor(): the value of cursor_locked after the call when ClipCursor
\* answers ok; without support nothing is attempted.
lock_cursor(ok) ==
    IF cursor_lock_supported /\ ok THEN TRUE ELSE cursor_locked

\* unlock_cursor returning before ClipCursor(None)
unlock_cursor_Keep == cursor_locked

\* unlock_cursor(): the value of cursor_locked after the call
unlock_cursor == IF cursor_lock_supported THEN FALSE ELSE cursor_locked

\* ------------------------------------------------ control_loop threads
InLoop(t) == threads[t].pc \in {"check", "acq", "read", "zero",
                                "intx", "inty", "smooth", "emit"}
Alive(t) == threads[t].pc = "init" \/ InLoop(t)
InActiveTick(t) ==
    \/ threads[t].pc \in {"intx", "inty", "smooth", "emit"}
    \/ threads[t].pc \in {"acq", "read", "zero"} /\ threads[t].act

\* line 997: the loop is entered only with the cursor locked
LoopEnter(t) ==
    /\ threads[t].pc = "init"
    /\ threads' = [threads EXCEPT
          ![t].pc = IF cursor_lock_supported /\ cursor_locked
                    THEN "check" ELSE "final",
          ![t].entered = cursor_lock_supported /\ cursor_locked]
    /\ UNCHANGED <<mode_vars, acc_vars, axis_vars, sink, cfg_vars,
                   gui_pc, gui_arg, budget, hist>>

\* lines 1001-1002: while self.running / if not self.paused
LoopCheck(t) ==
    /\ threads[t].pc = "check"
    /\ threads' = [threads EXCEPT
          ![t].pc = IF running THEN "acq" ELSE "final",
          ![t].act = running /\ ~paused,
          ![t].axes = IF running /\ ~paused
                      THEN <<x_axis_enabled, y_axis_enabled>>
                      ELSE <<TRUE, TRUE>>]
    /\ UNCHANGED <<mode_vars, acc_vars, axis_vars, sink, cfg_vars,
                   gui_pc, gui_arg, budget, hist>>

\* get_and_clear_raw_deltas entered without waiting for the lock
DrainAcquire_NoLock(t) ==
    /\ threads[t].pc = "acq"
    /\ threads' = [threads EXCEPT ![t].pc = "read"]
    /\ UNCHANGED <<mode_vars, acc_vars, axis_vars, sink, cfg_vars,
                   gui_pc, gui_arg, budget, hist>>

\* get_and_clear_raw_deltas, line 339: with self.raw_input_lock
DrainAcquire(t) ==
    /\ threads[t].pc = "acq"
    /\ raw_input_lock = LockFree
    /\ raw_input_lock' = t
    /\ threads' = [threads EXCEPT ![t].pc = "read"]
    /\ UNCHANGED <<mode_vars, raw_dx, raw_dy, axis_vars, sink, cfg_vars,
                   gui_pc, gui_arg, budget, hist>>

\* line 340 with the pair swapped: dx, dy = self.raw_dy, self.raw_dx
DrainRead_Swapped(t) ==
    /\ threads[t].pc = "read"
    /\ threads' = [threads EXCEPT ![t].pc = "zero",
                                  ![t].dx = raw_dy, ![t].dy = raw_dx]
    /\ UNCHANGED <<mode_vars, acc_vars, axis_vars, sink, cfg_vars,
                   gui_pc, gui_arg, budget, hist>>

\* line 340: dx, dy = self.raw_dx, self.raw_dy
DrainRead(t) ==
    /\ threads[t].pc = "read"
    /\ threads' = [threads EXCEPT ![t].pc = "zero",
                                  ![t].dx = raw_dx, ![t].dy = raw_dy]
    /\ UNCHANGED <<mode_vars, acc_vars, axis_vars, sink, cfg_vars,
                   gui_pc, gui_arg, budget, hist>>

\* lines 341-343: zero the accumulator, release the lock, return dx, dy.
\* The paused branch (line 1042) discards the pair and sleeps.
DrainZero(t) ==
    /\ threads[t].pc = "zero"
    /\ raw_dx' = 0 /\ raw_dy' = 0
    /\ raw_input_lock' = LockFree
    /\ threads' = [threads EXCEPT
          ![t].pc = IF threads[t].act THEN "intx" ELSE "check",
          ![t].dx = IF threads[t].act THEN threads[t].dx ELSE 0,
          ![t].dy = IF threads[t].act THEN threads[t].dy ELSE 0]
    /\ hist' = [hist EXCEPT
          !.drained = <<hist.drained[1] + threads[t].dx,
                        hist.drained[2] + threads[t].dy>>,
          !.free = <<0, 0>>]
    /\ UNCHANGED <<mode_vars, axis_vars, sink, cfg_vars,
                   gui_pc, gui_arg, budget>>

\* the inversion flag left out
Invert_Ignored(flag, v) == v

\* lines 1016-1017 / 1028-1029: if self.invert_x.get(): joystick_x = -joystick_x
Invert(flag, v) == IF flag THEN -v ELSE v

\* lines 1006-1020: read sens and decay, integrate and shape the X axis
IntegrateX(t) ==
    /\ threads[t].pc = "intx"
    /\ LET rx == IF x_axis_enabled
                 THEN Integrate(raw_x, threads[t].dx, sensitivity, decay_rate)
                 ELSE 0
       IN  \E shaped \in ResponseValues(rx, deadzone, spline) :
              LET jx == IF x_axis_enabled
                        THEN Invert(invert_x, shaped)
                        ELSE 0
              IN  /\ raw_x' = rx
                  /\ threads' = [threads EXCEPT
                        ![t].pc = "inty", ![t].jx = jx,
                        ![t].sens = sensitivity, ![t].decay = decay_rate]
    /\ UNCHANGED <<mode_vars, acc_vars, raw_y, smooth_x, smooth_y,
                   joystick_x, joystick_y, sink, cfg_vars,
                   gui_pc, gui_arg, budget, hist>>

\* lines 1022-1032: the Y axis, shaped from -raw_y
IntegrateY(t) ==
    /\ threads[t].pc = "inty"
    /\ LET ry == IF y_axis_enabled
                 THEN Integrate(raw_y, threads[t].dy, threads[t].sens,
                                threads[t].decay)
                 ELSE 0
       IN  \E shaped \in ResponseValues(-ry, deadzone, spline) :
              LET jy == IF y_axis_enabled
                        THEN Invert(invert_y, shaped)
                        ELSE 0
              IN  /\ raw_y' = ry
                  /\ threads' = [threads EXCEPT
                        ![t].pc = "smooth", ![t].jy = jy,
                        ![t].sens = 0, ![t].decay = 0,
                        ![t].dx = 0, ![t].dy = 0]
    /\ UNCHANGED <<mode_vars, acc_vars, raw_x, smooth_x, smooth_y,
                   joystick_x, joystick_y, sink, cfg_vars,
                   gui_pc, gui_arg, budget, hist>>

\* line 1035: self.joystick_x, self.joystick_y = self.apply_smoothing(..)
Smooth(t) ==
    /\ threads[t].pc = "smooth"
    /\ LET sx == SmoothStep(smooth_x, threads[t].jx, smoothing)
           sy == SmoothStep(smooth_y, threads[t].jy, smoothing)
       IN  /\ smooth_x' = sx /\ smooth_y' = sy
           /\ joystick_x' = sx /\ joystick_y' = sy
    /\ threads' = [threads EXCEPT
          ![t].pc = "emit", ![t].jx = 0, ![t].jy = 0,
          ![t].out = <<SmoothStep(smooth_x, threads[t].jx, smoothing),
                       SmoothStep(smooth_y, threads[t].jy, smoothing)>>,
          ![t].thru = IF smoothing = 0
                      THEN <<threads[t].jx, threads[t].jy>> ELSE <<>>]
    /\ UNCHANGED <<mode_vars, acc_vars, raw_x, raw_y, sink, cfg_vars,
                   gui_pc, gui_arg, budget, hist>>

\* lines 1037-1044: left_joystick_float(joystick_x, joystick_y), update(),
\* sleep, back to the loop head
Emit(t) ==
    /\ threads[t].pc = "emit"
    /\ sink' = <<joystick_x, joystick_y>>
    /\ threads' = [threads EXCEPT ![t].pc = "check",
                      ![t].wz = (joystick_x = 0 /\ joystick_y = 0),
                      ![t].axes = <<TRUE, TRUE>>, ![t].out = <<0, 0>>,
                      ![t].thru = <<>>]
    /\ UNCHANGED <<mode_vars, acc_vars, axis_vars, cfg_vars,
                   gui_pc, gui_arg, budget, hist>>

\* control_loop returning without the forced zero of lines 1047-1048
LoopExit_NoZero(t) ==
    /\ threads[t].pc = "final"
    /\ threads' = [threads EXCEPT ![t].pc = "done"]
    /\ UNCHANGED <<mode_vars, acc_vars, axis_vars, sink, cfg_vars,
                   gui_pc, gui_arg, budget, hist>>

\* lines 1046-1048: the forced zero when the loop is left or never entered
LoopExit(t) ==
    /\ threads[t].pc = "final"
    /\ sink' = <<0, 0>>
    /\ threads' = [threads EXCEPT ![t].pc = "done", ![t].wz = TRUE]
    /\ UNCHANGED <<mode_vars, acc_vars, axis_vars, cfg_vars,
                   gui_pc, gui_arg, budget, hist>>

\* ------------------------------------------------------ Tk main thread
AxisSnapshot == <<raw_x, raw_y, smooth_x, smooth_y>>

FreeSlots == {t \in Threads : threads[t].pc \in {"none", "done"}}

\* toggle_control, lines 903-923: the start command.  The handler touches
\* nothing a running control_loop reads between its first and last line
\* except running/paused, so it is one step.
StartControl(ok) ==
    /\ gui_pc = "idle"
    /\ ~running
    /\ budget.cmds > 0
    /\ FreeSlots # {}
    /\ running' = TRUE
    /\ paused' = FALSE
    /\ cursor_locked' = lock_cursor(ok)
    /\ LET t == CHOOSE s \in FreeSlots : \A o \in FreeSlots : s <= o
       IN  threads' = [threads EXCEPT ![t] = [NoThread EXCEPT !.pc = "init"]]
    /\ budget' = [budget EXCEPT !.cmds = @ - 1]
    /\ hist' = [hist EXCEPT !.snap = <<>>, !.last_cmd = "start"]
    /\ UNCHANGED <<cursor_lock_supported, unit, acc_vars, axis_vars, sink,
                   cfg_vars, gui_pc, gui_arg>>

\* stop_control, lines 928-935: running = False, unlock_cursor()
StopBegin ==
    /\ gui_pc = "idle"
    /\ running
    /\ budget.cmds > 0
    /\ running' = FALSE
    /\ cursor_locked' = unlock_cursor
    /\ gui_pc' = "stop_zero"
    /\ budget' = [budget EXCEPT !.cmds = @ - 1]
    /\ hist' = [hist EXCEPT !.snap = <<>>, !.last_cmd = "stop"]
    /\ UNCHANGED <<paused, cursor_lock_supported, unit, acc_vars, axis_vars, sink,
                   cfg_vars, threads, gui_arg>>

\* stop_control, lines 937-938: the forced zero
StopZero ==
    /\ gui_pc = "stop_zero"
    /\ sink' = <<0, 0>>
    /\ gui_pc' = "stop_smooth"
    /\ UNCHANGED <<mode_vars, acc_vars, axis_vars, cfg_vars, threads,
                   gui_arg, budget, hist>>

\* stop_control, lines 940-945: the smoothing buffers
StopSmooth ==
    /\ gui_pc = "stop_smooth"
    /\ smooth_x' = 0 /\ smooth_y' = 0
    /\ gui_pc' = "idle"
    /\ UNCHANGED <<mode_vars, acc_vars, raw_x, raw_y, joystick_x, joystick_y,
                   sink, cfg_vars, threads, gui_arg, budget, hist>>

\* toggle_pause without the test of line 949: paused flips in Free
PauseIgnored_Toggles ==
    /\ gui_pc = "idle"
    /\ ~running
    /\ budget.cmds > 0
    /\ paused' = ~paused
    /\ budget' = [budget EXCEPT !.cmds = @ - 1]
    /\ UNCHANGED <<running, cursor_lock_supported, cursor_locked, unit,
                   acc_vars, axis_vars, sink, cfg_vars, threads, gui_pc,
                   gui_arg, hist>>

\* toggle_pause, lines 947-950, issued while not running: it returns at
\* once (the command is spent, nothing else changes)
PauseIgnored ==
    /\ gui_pc = "idle"
    /\ ~running
    /\ budget.cmds > 0
    /\ budget' = [budget EXCEPT !.cmds = @ - 1]
    /\ UNCHANGED <<mode_vars, acc_vars, axis_vars, sink, cfg_vars, threads,
                   gui_pc, gui_arg, hist>>

\* toggle_pause, lines 949-959: entering Paused
PauseBegin ==
    /\ gui_pc = "idle"
    /\ running /\ ~paused
    /\ budget.cmds > 0
    /\ paused' = TRUE
    /\ cursor_locked' = IF cursor_locked THEN unlock_cursor ELSE cursor_locked
    /\ gui_pc' = "pause_zero"
    /\ budget' = [budget EXCEPT !.cmds = @ - 1]
    /\ hist' = [hist EXCEPT !.snap = AxisSnapshot, !.last_cmd = "pause"]
    /\ UNCHANGED <<running, cursor_lock_supported, unit, acc_vars, axis_vars, sink,
                   cfg_vars, threads, gui_arg>>

\* toggle_pause, lines 961-963: the forced zero
PauseZero ==
    /\ gui_pc = "pause_zero"
    /\ sink' = <<0, 0>>
    /\ gui_pc' = "idle"
    /\ UNCHANGED <<mode_vars, acc_vars, axis_vars, cfg_vars, threads,
                   gui_arg, budget, hist>>

\* toggle_pause, lines 952, 964-972: leaving Paused re-attempts the lock
Resume(ok) ==
    /\ gui_pc = "idle"
    /\ running /\ paused
    /\ budget.cmds > 0
    /\ paused' = FALSE
    /\ cursor_locked' = lock_cursor(ok)
    /\ budget' = [budget EXCEPT !.cmds = @ - 1]
    /\ hist' = [hist EXCEPT
          !.snap = <<>>, !.last_cmd = "resume",
          !.resumed_same = IF hist.snap = <<>> THEN @
                           ELSE @ /\ hist.snap = AxisSnapshot]
    /\ UNCHANGED <<running, cursor_lock_supported, unit, acc_vars, axis_vars, sink,
                   cfg_vars, threads, gui_pc, gui_arg>>

\* py_wnd_proc / process_raw_input, line 331: a WM_INPUT message is
\* dispatched on the main thread and takes the accumulator lock.  Messages
\* arrive only when raw input was registered.
RawInputBegin(d) ==
    /\ gui_pc = "idle"
    /\ cursor_lock_supported
    /\ budget.inputs > 0
    /\ raw_input_lock = LockFree
    /\ raw_input_lock' = GuiHolder
    /\ gui_pc' = "raw_add"
    /\ gui_arg' = d
    /\ budget' = [budget EXCEPT !.inputs = @ - 1]
    /\ UNCHANGED <<mode_vars, raw_dx, raw_dy, axis_vars, sink, cfg_vars,
                   threads, hist>>

\* process_raw_input, lines 332-333, and the release of the lock
RawInputAdd ==
    /\ gui_pc = "raw_add"
    /\ raw_dx' = raw_dx + gui_arg[1]
    /\ raw_dy' = raw_dy + gui_arg[2]
    /\ raw_input_lock' = LockFree
    /\ gui_pc' = "idle"
    /\ gui_arg' = <<0, 0>>
    /\ hist' = [hist EXCEPT
          !.written = <<hist.written[1] + gui_arg[1],
                        hist.written[2] + gui_arg[2]>>,
          !.free = IF running THEN @
                   ELSE <<@[1] + gui_arg[1], @[2] + gui_arg[2]>>]
    /\ UNCHANGED <<mode_vars, axis_vars, sink, cfg_vars, threads, budget>>

\* ---------------------------------------------------------- quitting
\* quit_app (QUIT button, Esc hotkey; lines 974-977) and on_closing (window
\* close; lines 1090-1114), both of which call stop_control if
\* self.running.  When running, the first lines of stop_control (928-935):
\* running = False, unlock_cursor(); else straight to the rest of
\* on_closing.
QuitBegin ==
    /\ gui_pc = "idle"
    /\ running' = FALSE
    /\ cursor_locked' = IF running THEN unlock_cursor ELSE cursor_locked
    /\ gui_pc' = IF running THEN "quit_zero" ELSE "closing"
    /\ hist' = [hist EXCEPT
          !.snap = <<>>,
          !.last_cmd = IF running THEN "stop" ELSE @,
          !.quit = [from |-> IF ~running THEN "Free"
                             ELSE IF paused THEN "Paused" ELSE "Locked",
                    stops |-> IF running THEN 1 ELSE 0]]
    /\ UNCHANGED <<paused, cursor_lock_supported, unit, acc_vars, axis_vars,
                   sink, cfg_vars, threads, gui_arg, budget>>

\* stop_control called by the quit, lines 937-938: the forced zero
QuitZero ==
    /\ gui_pc = "quit_zero"
    /\ sink' = <<0, 0>>
    /\ gui_pc' = "quit_smooth"
    /\ UNCHANGED <<mode_vars, acc_vars, axis_vars, cfg_vars, threads,
                   gui_arg, budget, hist>>

\* stop_control called by the quit, lines 940-945: the smoothing buffers
QuitSmooth ==
    /\ gui_pc = "quit_smooth"
    /\ smooth_x' = 0 /\ smooth_y' = 0
    /\ gui_pc' = "closing"
    /\ UNCHANGED <<mode_vars, acc_vars, raw_x, raw_y, joystick_x, joystick_y,
                   sink, cfg_vars, threads, gui_arg, budget, hist>>

\* on_closing, lines 1107-1114: self.running is False by now, so
\* stop_control is not called (again); save_settings, gamepad.reset()
\* (which sends nothing), root.destroy()
on_closing ==
    /\ gui_pc = "closing"
    /\ gui_pc' = "destroyed"
    /\ hist' = [hist EXCEPT !.quit.stops = IF running THEN @ + 1 ELSE @]
    /\ UNCHANGED <<mode_vars, acc_vars, axis_vars, sink, cfg_vars, threads,
                   gui_arg, budget>>

\* ------------------------------------------------- configuration edits
Edit == /\ gui_pc = "idle"
        /\ budget.edits > 0
        /\ budget' = [budget EXCEPT !.edits = @ - 1]

\* update_spline, lines 750-760: an interpolant of the current points
update_spline(pts) == IF Len(pts) >= 2 THEN pts ELSE spline

\* initialize_curve, the after(100) timer of __init__
InitializeCurve ==
    /\ gui_pc = "idle"
    /\ spline = <<>>
    /\ spline' = update_spline(control_points)
    /\ hist' = [hist EXCEPT !.raised = @ \/ update_spline_raises(control_points)]
    /\ UNCHANGED <<mode_vars, acc_vars, axis_vars, sink, sensitivity,
                   decay_rate, deadzone, smoothing, x_axis_enabled,
                   y_axis_enabled, invert_x, invert_y, control_points,
                   threads, gui_pc, gui_arg, budget>>

\* the four sliders (tk.Scale writes its variable within from_..to)
SetSensitivity(v) ==
    /\ Edit /\ v # sensitivity
    /\ sensitivity' = v
    /\ UNCHANGED <<mode_vars, acc_vars, axis_vars, sink, decay_rate, deadzone,
                   smoothing, x_axis_enabled, y_axis_enabled, invert_x,
                   invert_y, control_points, spline, threads, gui_pc,
                   gui_arg, hist>>

SetDecay(v) ==
    /\ Edit /\ v # decay_rate
    /\ decay_rate' = v
    /\ UNCHANGED <<mode_vars, acc_vars, axis_vars, sink, sensitivity, deadzone,
                   smoothing, x_axis_enabled, y_axis_enabled, invert_x,
                   invert_y, control_points, spline, threads, gui_pc,
                   gui_arg, hist>>

SetDeadzone(v) ==
    /\ Edit /\ v # deadzone
    /\ deadzone' = v
    /\ UNCHANGED <<mode_vars, acc_vars, axis_vars, sink, sensitivity,
                   decay_rate, smoothing, x_axis_enabled, y_axis_enabled,
                   invert_x, invert_y, control_points, spline, threads,
                   gui_pc, gui_arg, hist>>

SetSmoothing(v) ==
    /\ Edit /\ v # smoothing
    /\ smoothing' = v
    /\ UNCHANGED <<mode_vars, acc_vars, axis_vars, sink, sensitivity,
                   decay_rate, deadzone, x_axis_enabled, y_axis_enabled,
                   invert_x, invert_y, control_points, spline, threads,
                   gui_pc, gui_arg, hist>>

\* adjust_sensitivity(delta), lines 897-900
adjust_sensitivity(delta) ==
    /\ Edit
    /\ sensitivity' = Max(SensMin, Min(SensMax, sensitivity + delta))
    /\ UNCHANGED <<mode_vars, acc_vars, axis_vars, sink, decay_rate, deadzone,
                   smoothing, x_axis_enabled, y_axis_enabled, invert_x,
                   invert_y, control_points, spline, threads, gui_pc,
                   gui_arg, hist>>

\* the X-Axis / Y-Axis checkbuttons: the variable flips, then
\* on_axis_toggle (lines 883-895) zeroes every disabled axis
on_axis_toggle(axis) ==
    /\ Edit
    /\ LET xe == IF axis = "x" THEN ~x_axis_enabled ELSE x_axis_enabled
           ye == IF axis = "y" THEN ~y_axis_enabled ELSE y_axis_enabled
       IN  /\ x_axis_enabled' = xe
           /\ y_axis_enabled' = ye
           /\ joystick_x' = IF xe THEN joystick_x ELSE 0
           /\ raw_x' = IF xe THEN raw_x ELSE 0
           /\ smooth_x' = IF xe THEN smooth_x ELSE 0
           /\ joystick_y' = IF ye THEN joystick_y ELSE 0
           /\ raw_y' = IF ye THEN raw_y ELSE 0
           /\ smooth_y' = IF ye THEN smooth_y ELSE 0
    /\ hist' = [hist EXCEPT !.snap = <<>>]
    /\ UNCHANGED <<mode_vars, acc_vars, sink, sensitivity, decay_rate,
                   deadzone, smoothing, invert_x, invert_y, control_points,
                   spline, threads, gui_pc, gui_arg>>

\* the Invert X / Invert Y checkbuttons
ToggleInvert(axis) ==
    /\ Edit
    /\ invert_x' = IF axis = "x" THEN ~invert_x ELSE invert_x
    /\ invert_y' = IF axis = "y" THEN ~invert_y ELSE invert_y
    /\ UNCHANGED <<mode_vars, acc_vars, axis_vars, sink, sensitivity,
                   decay_rate, deadzone, smoothing, x_axis_enabled,
                   y_axis_enabled, control_points, spline, threads, gui_pc,
                   gui_arg, hist>>

\* load_preset(preset_name), lines 839-851
load_preset(name) ==
    /\ Edit
    /\ control_points' = Preset(name)
    /\ spline' = update_spline(Preset(name))
    /\ hist' = [hist EXCEPT !.raised = @ \/ update_spline_raises(Preset(name))]
    /\ UNCHANGED <<mode_vars, acc_vars, axis_vars, sink, sensitivity,
                   decay_rate, deadzone, smoothing, x_axis_enabled,
                   y_axis_enabled, invert_x, invert_y, threads, gui_pc,
                   gui_arg>>

\* reset_to_defaults, lines 416-425, once the dialog is confirmed:
\* apply_default_settings, then update_spline
reset_to_defaults ==
    /\ Edit
    /\ sensitivity' = default_settings.sensitivity
    /\ decay_rate' = default_settings.decay_rate
    /\ deadzone' = default_settings.deadzone
    /\ smoothing' = default_settings.smoothing
    /\ x_axis_enabled' = default_settings.x_axis_enabled
    /\ y_axis_enabled' = default_settings.y_axis_enabled
    /\ invert_x' = default_settings.invert_x
    /\ invert_y' = default_settings.invert_y
    /\ control_points' = default_settings.control_points
    /\ spline' = update_spline(default_settings.control_points)
    /\ hist' = [hist EXCEPT
          !.raised = @ \/ update_spline_raises(default_settings.control_points)]
    /\ UNCHANGED <<mode_vars, acc_vars, axis_vars, sink, threads, gui_pc,
                   gui_arg>>

\* on_curve_click, lines 801-812, for a press on point i: the point
\* selected, 0 for none (the first and the last point are never selected)
on_curve_click(pts, i) == IF i # 1 /\ i # Len(pts) THEN i ELSE 0

\* on_curve_drag, lines 818-828: where the selected point i goes for a
\* pointer at (x, y), in hundredths of the curve's axes
DraggedPoint(pts, i, x, y) ==
    LET x1 == Max(DragEps, Min(100 - DragEps, x))
        y1 == Max(0, Min(100, y))
        x2 == IF i > 1 THEN Max(x1, pts[i - 1][1] + DragEps) ELSE x1
        x3 == IF i < Len(pts) THEN Min(x2, pts[i + 1][1] - DragEps) ELSE x2
    IN  <<x3, y1>>

\* pointer positions of a drag, some of them outside the canvas
DragPositions == {<<-10, 120>>, <<50, 40>>, <<110, -10>>}

\* a press on point i (on_curve_click), one motion event (on_curve_drag,
\* lines 814-832) and the release (on_curve_release); without a selected
\* point the motion does nothing
CurveDrag(i, pos) ==
    /\ Edit
    /\ i \in 1..Len(control_points)
    /\ on_curve_click(control_points, i) # 0
    /\ LET sel == on_curve_click(control_points, i)
           pts == [control_points EXCEPT
                     ![sel] = DraggedPoint(control_points, sel, pos[1], pos[2])]
       IN  /\ control_points' = pts
           /\ spline' = update_spline(pts)
           /\ hist' = [hist EXCEPT !.raised = @ \/ update_spline_raises(pts)]
    /\ UNCHANGED <<mode_vars, acc_vars, axis_vars, sink, sensitivity,
                   decay_rate, deadzone, smoothing, x_axis_enabled,
                   y_axis_enabled, invert_x, invert_y, threads, gui_pc,
                   gui_arg>>

\* inputs given to the response curve: every value of [-1, 1]
ShapeInputs == (-unit)..unit

\* apply_response_curve applied to one value (lines 1015 and 853-871),
\* once, in a session whose control loop never ran: raw_x holds the
\* argument and joystick_x the result
ShapeValue(v) ==
    /\ gui_pc = "idle"
    /\ \A t \in Threads : threads[t].pc = "none"
    /\ raw_x = 0 /\ joystick_x = 0
    /\ raw_x' = v
    /\ \E r \in ResponseValues(v, deadzone, spline) : joystick_x' = r
    /\ UNCHANGED <<mode_vars, acc_vars, raw_y, smooth_x, smooth_y, joystick_y,
                   sink, cfg_vars, threads, gui_pc, gui_arg, budget, hist>>

\* ------------------------------------------------------- specification
LoopStep ==
    \/ \E t \in Threads : LoopEnter(t)
    \/ \E t \in Threads : LoopCheck(t)
    \/ \E t \in Threads : DrainAcquire(t)
    \/ \E t \in Threads : DrainRead(t)
    \/ \E t \in Threads : DrainZero(t)
    \/ \E t \in Threads : IntegrateX(t)
    \/ \E t \in Threads : IntegrateY(t)
    \/ \E t \in Threads : Smooth(t)
    \/ \E t \in Threads : Emit(t)
    \/ \E t \in Threads : LoopExit(t)

CommandStep ==
    \/ \E ok \in BOOLEAN : StartControl(ok)
    \/ StopBegin
    \/ StopZero
    \/ StopSmooth
    \/ PauseBegin
    \/ PauseZero
    \/ PauseIgnored
    \/ InitializeCurve

ResumeStep == \E ok \in BOOLEAN : Resume(ok)

InputStep ==
    \/ \E d \in InputDeltas : RawInputBegin(d)
    \/ RawInputAdd

EditStep ==
    \/ \E v \in SensitivityValues : SetSensitivity(v)
    \/ \E v \in DecayValues : SetDecay(v)
    \/ \E v \in DeadzoneValues : SetDeadzone(v)
    \/ \E v \in SmoothingValues : SetSmoothing(v)
    \/ \E delta \in {-SensStep, SensStep} : adjust_sensitivity(delta)
    \/ \E axis \in {"x", "y"} : on_axis_toggle(axis)
    \/ \E axis \in {"x", "y"} : ToggleInvert(axis)
    \/ \E name \in PresetNames : load_preset(name)

Next == LoopStep \/ CommandStep \/ ResumeStep \/ InputStep \/ EditStep

Spec == Init /\ [][Next]_vars

\* The same program with no configuration edits and a longer stream of
\* raw input.
CoreInit == InitWith([cmds |-> CoreCmds, edits |-> 0, inputs |-> CoreInputs])

CoreNext == LoopStep \/ CommandStep \/ ResumeStep \/ InputStep

CoreSpec == CoreInit /\ [][CoreNext]_vars

\* One session, under the scheduling the platform gives: a started thread
\* keeps being scheduled, and a handler that has begun runs to its end.
LiveInit == InitWith([cmds |-> LiveCmds, edits |-> 0, inputs |-> LiveInputs])

LiveNext == LoopStep \/ CommandStep \/ InputStep

LiveSpec ==
    /\ LiveInit
    /\ [][LiveNext]_vars
    /\ \A t \in Threads : WF_vars(LoopEnter(t) \/ LoopCheck(t) \/ DrainAcquire(t)
                                  \/ DrainRead(t) \/ DrainZero(t)
                                  \/ IntegrateX(t) \/ IntegrateY(t)
                                  \/ Smooth(t) \/ Emit(t) \/ LoopExit(t))
    /\ WF_vars(StopZero \/ StopSmooth \/ PauseZero \/ RawInputAdd)

\* The configuration alone: a session that starts from any settings
\* document and edits its configuration and its curve without starting
\* the control loop.
ConfigInit ==
    \E doc \in Documents :
       Startup(doc, FineUnit, [cmds |-> 0, edits |-> ConfigEdits, inputs |-> 0])

CurveEditStep ==
    \/ reset_to_defaults
    \/ \E i \in 1..5 : \E pos \in DragPositions : CurveDrag(i, pos)

ConfigNext == InitializeCurve \/ EditStep \/ CurveEditStep

ConfigSpec == ConfigInit /\ [][ConfigNext]_vars

\* The response curve alone: a session that starts from any settings
\* document, edits its deadzone and its curve, and applies the curve to
\* every value of [-1, 1].
CurveInit ==
    \E doc \in Documents :
       Startup(doc, FineUnit, [cmds |-> 0, edits |-> CurveEdits, inputs |-> 0])

CurveNext ==
    \/ InitializeCurve
    \/ \E v \in DeadzoneValues : SetDeadzone(v)
    \/ \E name \in PresetNames : load_preset(name)
    \/ \E i \in 1..5 : \E pos \in DragPositions : CurveDrag(i, pos)
    \/ \E v \in (-FineUnit)..FineUnit : ShapeValue(v)

CurveSpec == CurveInit /\ [][CurveNext]_vars

\* One pipeline followed tick by tick: the defaults with smoothing 0 (a
\* settings document that holds only that key), one start and one raw
\* delta (100, 0).
ScenarioDocument ==
    Document("object", {"smoothing"},
             [default_settings EXCEPT !.smoothing = 0], "ok")

ScenarioDelta == <<100, 0>>

ScenarioInit ==
    Startup(ScenarioDocument, FineUnit, [cmds |-> 1, edits |-> 0, inputs |-> 1])

ScenarioNext ==
    \/ LoopStep
    \/ \E ok \in BOOLEAN : StartControl(ok)
    \/ InitializeCurve
    \/ RawInputBegin(ScenarioDelta)
    \/ RawInputAdd

ScenarioSpec == ScenarioInit /\ [][ScenarioNext]_vars

\* One control loop and the axis checkbuttons: one start, raw input, and
\* presses of the X-Axis / Y-Axis checkbuttons while the loop runs.
AxisInit ==
    Startup(NoFile, FineUnit, [cmds |-> 1, edits |-> AxisEdits, inputs |-> 1])

AxisNext ==
    \/ LoopStep
    \/ \E ok \in BOOLEAN : StartControl(ok)
    \/ InitializeCurve
    \/ InputStep
    \/ \E axis \in {"x", "y"} : on_axis_toggle(axis)

AxisSpec == AxisInit /\ [][AxisNext]_vars

\* A session that ends: commands, raw input, and a quit from whatever
\* state the session is in.
QuitInit == InitWith([cmds |-> QuitCmds, edits |-> 0, inputs |-> QuitInputs])

QuitStep == QuitBegin \/ QuitZero \/ QuitSmooth \/ on_closing

QuitNext == LoopStep \/ CommandStep \/ ResumeStep \/ InputStep \/ QuitStep

QuitSpec == QuitInit /\ [][QuitNext]_vars

\* ------------------------------------------------------------- claims
Idle(t) == threads[t].pc \in {"none", "done"}
Zero == <<0, 0>>

\* C1: whenever the state is Paused or Free the last pair given to the
\* sink is (0,0).  Stated for the states in which no command handler is
\* half-way, it fails: a tick that read paused = False before the pause
\* emits its pair after the handler's zero.
C1_PausedOrFreeSinkZero ==
    (gui_pc = "idle" /\ (~running \/ paused)) => sink = Zero

\* C2: the deltas drained so far plus the deltas still in the accumulator
\* are exactly the deltas written so far, whenever no one is inside the
\* critical section; a drain in progress holds exactly the accumulator's
\* content.
C2_NoDeltaLostOrDuplicated ==
    /\ raw_input_lock = LockFree =>
          /\ hist.written[1] = hist.drained[1] + raw_dx
          /\ hist.written[2] = hist.drained[2] + raw_dy
    /\ \A t \in Threads :
          threads[t].pc = "zero" =>
             /\ threads[t].dx = raw_dx /\ threads[t].dy = raw_dy
             /\ hist.written[1] = hist.drained[1] + threads[t].dx
             /\ hist.written[2] = hist.drained[2] + threads[t].dy

\* C2 witness: two messages written, drained in two separate drains, one
\* of them by a paused tick, and nothing left in the accumulator
C2_Witness ==
    /\ budget.inputs = 0 /\ gui_pc = "idle"
    /\ hist.written = <<2 * MaxDelta, 0>>
    /\ hist.drained = hist.written
    /\ raw_input_lock = LockFree
    /\ paused

\* C3: once a stop has completed and every control loop has exited, the
\* state is Free, the pointer is released, the sink holds (0,0) and the
\* accumulators and smoothing buffers are 0.
C3_StopResetsAxisState ==
    (hist.last_cmd = "stop" /\ gui_pc = "idle" /\ \A t \in Threads : Idle(t))
       => /\ ~running /\ ~cursor_locked /\ sink = Zero
          /\ raw_x = 0 /\ raw_y = 0 /\ smooth_x = 0 /\ smooth_y = 0

\* C4: at every resume the accumulators and smoothing buffers equal their
\* values at the pause that preceded it (no axis was switched off meanwhile).
C4_ResumeKeepsAxisState == hist.resumed_same

\* C5: while Paused, once the pause handler has returned and no tick that
\* began before the pause is still in flight, the sink holds (0,0).
C5_PausedSinkStaysZero ==
    (running /\ paused /\ gui_pc = "idle"
       /\ \A t \in Threads : ~InActiveTick(t))
       => sink = Zero

\* C6: whenever a start has completed and no stop has been issued, a
\* control-loop thread is alive.
C6_LoopAliveWhileRunning ==
    (running /\ gui_pc = "idle") => \E t \in Threads : Alive(t)

\* C7: a completed start leaves running true and paused false, and the
\* thread it starts runs the tick loop whether or not the lock succeeded:
\* no control loop ends without having entered its loop.
C7_StartAlwaysRunsPipeline ==
    /\ (hist.last_cmd = "start" /\ gui_pc = "idle") => (running /\ ~paused)
    /\ \A t \in Threads :
          threads[t].pc \in {"final", "done"} => threads[t].entered

C9_Expected(prev, d, sens, decay) ==
    LET leaked == Trunc((prev * GainDen + d * sens * GainNum * Unit) * decay,
                        GainDen * 100)
    IN  IF leaked > Unit THEN Unit ELSE IF leaked < -Unit THEN -Unit ELSE leaked

C10_SinkInRange ==
    /\ sink[1] \in -Unit..Unit /\ sink[2] \in -Unit..Unit
    /\ \A t \in Threads :
          threads[t].pc = "emit" =>
             (joystick_x \in -Unit..Unit /\ joystick_y \in -Unit..Unit)

\* C10 witness: a deflected pair produced from a saturated accumulator has
\* been emitted
C10_Witness ==
    /\ raw_x = -Unit
    /\ sink[1] <= -(Unit \div 2) /\ sink[2] >= Unit \div 2
    /\ sink = <<joystick_x, joystick_y>>

\* the configuration as one record
CurrentSettings ==
    [sensitivity |-> sensitivity, decay_rate |-> decay_rate,
     deadzone |-> deadzone, smoothing |-> smoothing,
     x_axis_enabled |-> x_axis_enabled, y_axis_enabled |-> y_axis_enabled,
     invert_x |-> invert_x, invert_y |-> invert_y,
     control_points |-> control_points]

\* C15: no construction of the interpolant has raised to its caller (the
\* linear interpolant takes over where the cubic cannot be built, and a
\* list of fewer than two points is left alone), and the response curve
\* returns a value for every input in [-1, 1].
C15_CurveChainIsTotal ==
    /\ ~hist.raised
    /\ \A pts \in {<<>>, <<<<0, 0>>>>} : ~update_spline_raises(pts)
    /\ \A v \in ShapeInputs :
          /\ ResponseValues(v, deadzone, spline) # {}
          /\ ResponseValues(v, deadzone, spline) \subseteq (-unit)..unit

\* C15 witness: the curve in use is the linear interpolant that replaced a
\* cubic that could not be built, after an edit of the curve
C15_Witness ==
    /\ spline # <<>> /\ CubicFails(spline)
    /\ spline # hist.doc.values.control_points
    /\ budget.edits < ConfigEdits

\* C16: in every state sensitivity is in [2, 100], decay rate in
\* [0.5, 0.99], deadzone in [0, 0.2] and smoothing in [0, 0.95], whatever
\* the settings document held.
C16_ConfigurationInRange ==
    /\ sensitivity \in SensMin..SensMax
    /\ decay_rate \in DecayMin..DecayMax
    /\ deadzone \in 0..DeadzoneMax
    /\ smoothing \in 0..SmoothingMax

\* C16 witness: the document held values above every range, and the
\* session has since edited its configuration
C16_Witness ==
    /\ "decay_rate" \in hist.doc.keys
    /\ hist.doc.values.decay_rate > DecayMax
    /\ hist.doc.values.sensitivity > SensMax
    /\ decay_rate = DecayMax /\ sensitivity = SensMax
    /\ budget.edits = 0

\* C17: the control points are at least two, strictly increasing in
\* input (so a dragged point keeps 0.01 from its neighbours), the first is
\* (0,0), the last is (1,1) and all lie in [0,1] x [0,1].  It fails for
\* the points load_settings takes from the document.
C17_ControlPointsWellFormed ==
    LET n == Len(control_points)
    IN  /\ n >= 2
        /\ control_points[1] = <<0, 0>>
        /\ control_points[n] = <<100, 100>>
        /\ \A i \in 1..n :
              control_points[i][1] \in 0..100 /\ control_points[i][2] \in 0..100
        /\ \A i \in 1..(n - 1) :
              control_points[i + 1][1] - control_points[i][1] >= DragEps

\* the documents whose load fails: no file, a file json.load rejects, or
\* content that raises while it is converted
LoadFails(doc) ==
    \/ doc.kind # "object"
    \/ /\ "control_points" \in doc.keys
       /\ doc.entries = "nonnumeric"

\* C18: right after startup, if the load failed every field holds its
\* default, and if it succeeded every key the document lacks holds its
\* default.
C18_LoadFailureGivesDefaults ==
    budget.edits = ConfigEdits =>
       /\ LoadFails(hist.doc) => CurrentSettings = default_settings
       /\ ~LoadFails(hist.doc) =>
             \A k \in AllKeys \ hist.doc.keys :
                CurrentSettings[k] = default_settings[k]

\* C18 witness: startup has completed (the curve is initialised) on a
\* document that set some fields before its control points raised
C18_Witness ==
    /\ budget.edits = ConfigEdits
    /\ hist.doc.kind = "object" /\ hist.doc.entries = "nonnumeric"
    /\ hist.doc.values.sensitivity # DefaultSensitivity
    /\ sensitivity = DefaultSensitivity
    /\ spline = DefaultPoints

\* C11: the response curve gives exactly 0 for every input whose magnitude
\* is below the deadzone, and magnitude exactly 1 for an input of
\* magnitude 1 when the deadzone is 0.  The second half fails for control
\* points that do not end at (1,1).
C11_DeadzoneAndFullScale ==
    [][\A v \in ShapeInputs :
          ShapeValue(v) =>
             /\ (Abs(v) * 100 < deadzone * unit) => joystick_x' = 0
             /\ (Abs(v) = unit /\ deadzone = 0) => Abs(joystick_x') = unit]_vars

C14_PeakRaw ==
    Integrate(0, ScenarioDelta[1], DefaultSensitivity, DefaultDecay)

\* C14: in the scenario (sensitivity 50, decay 0.85, deadzone 0.05,
\* smoothing 0, identity curve, one delta (100, 0)) the emitted X rises on
\* the tick that integrates the delta, strictly decreases on every later
\* tick until it is 0 and then stays 0; it never exceeds 1 and Y is 0 in
\* every emission.
C14_RiseThenDecay ==
    [][\A t \in Threads :
          Emit(t) =>
             /\ sink'[2] = 0
             /\ sink'[1] \in 0..unit
             /\ IF raw_x = C14_PeakRaw
                THEN sink[1] = 0 /\ sink'[1] > 0
                ELSE sink'[1] < sink[1] \/ sink'[1] = 0]_vars

\* C14 witness: the delta was integrated, X rose, and a later tick has
\* emitted a smaller X that is not yet 0
C14_Witness ==
    /\ hist.drained = ScenarioDelta
    /\ raw_x > 0 /\ raw_x < C14_PeakRaw - 1
    /\ sink[1] > 0 /\ sink = <<joystick_x, 0>>
    /\ \E t \in Threads : threads[t].pc = "check"

\* C19: a tick that finds an axis disabled forces its accumulator to 0,
\* disabling an axis resets its smoothing buffer, and a tick that started
\* with the axis disabled emits 0 for it.  The last part fails: a tick
\* in flight at the disable writes the smoothing buffer after the reset.
C19_DisabledAxisEmitsZero ==
    /\ [][\A t \in Threads :
            /\ (IntegrateX(t) /\ ~x_axis_enabled) => raw_x' = 0
            /\ (IntegrateY(t) /\ ~y_axis_enabled) => raw_y' = 0]_vars
    /\ [][/\ (x_axis_enabled /\ ~x_axis_enabled') => smooth_x' = 0
          /\ (y_axis_enabled /\ ~y_axis_enabled') => smooth_y' = 0]_vars
    /\ [][\A t \in Threads :
            Emit(t) =>
               /\ (~threads[t].axes[1] /\ ~x_axis_enabled) => sink'[1] = 0
               /\ (~threads[t].axes[2] /\ ~y_axis_enabled) => sink'[2] = 0]_vars

\* C20: in the unconfined mode (running, not paused, the pointer not
\* confined) a tick whose delta exceeds 50 px in magnitude leaves the
\* accumulator as a zero delta would.  The code has no such threshold.
C20_JumpDeltaDiscarded ==
    [][\A t \in Threads :
          (IntegrateX(t) /\ x_axis_enabled /\ threads[t].act
             /\ running /\ ~paused /\ ~cursor_locked
             /\ hist.last_cmd = "resume" /\ Abs(threads[t].dx) > 50)
          => raw_x' = Integrate(raw_x, 0, sensitivity, decay_rate)]_vars

\* C21: the capability flag never goes back to true once registration
\* failed, the session goes on (a start is still accepted), and a control
\* loop started without the capability enters its tick loop, taking its
\* deltas by polling.  The last part fails: control_loop has one
\* acquisition path and does not enter it.
C21_RegistrationFailureFallsBack ==
    /\ [][~cursor_lock_supported => ~cursor_lock_supported']_vars
    /\ [][(~cursor_lock_supported /\ \E ok \in BOOLEAN : StartControl(ok))
            => (running' /\ ~cursor_locked')]_vars
    /\ [][\A t \in Threads :
            (LoopEnter(t) /\ ~cursor_lock_supported)
               => threads'[t].pc = "check"]_vars

\* a step of a command handler: start, stop, pause or resume
CommandHandlerStep ==
    \/ \E ok \in BOOLEAN : StartControl(ok)
    \/ StopBegin \/ StopZero \/ StopSmooth
    \/ PauseBegin \/ PauseZero
    \/ \E ok \in BOOLEAN : Resume(ok)

\* C22: while an active tick is between its read of running / paused and
\* the end of its emission, no command handler changes the flags, the
\* confinement, the smoothing buffers or the sink.  Nothing in the code
\* keeps the handlers out.
C22_CommandsExcludeInFlightTick ==
    [][((\E t \in Threads : InActiveTick(t)) /\ CommandHandlerStep)
          => UNCHANGED <<running, paused, cursor_locked, smooth_x, smooth_y,
                         sink>>]_vars

\* C23: the state never is Free (running false) while the zero emission
\* of the stop in progress is still to come.  stop_control clears running
\* in its first line and emits its zero after releasing the cursor.
C23_StopZeroBeforeFree == gui_pc = "stop_zero" => running

\* a tick that found the state Paused at its loop head
InPausedTick(t) ==
    threads[t].pc \in {"acq", "read", "zero"} /\ ~threads[t].act

\* C24: a tick executed while Paused leaves the DeltaAccumulator at
\* (0,0), changes no axis accumulator or smoothing buffer, and ends with
\* (0,0) in the sink.  The paused branch emits nothing, so the last part
\* fails when the sink held another pair.
C24_PausedTickDrainsAndEmitsZero ==
    [][\A t \in Threads :
          (InPausedTick(t) /\ DrainZero(t)) =>
             /\ raw_dx' = 0 /\ raw_dy' = 0
             /\ UNCHANGED axis_vars
             /\ sink' = Zero]_vars

\* the position that follows p in an active tick
NextInTick(p) ==
    CASE p = "acq" -> "read" [] p = "read" -> "zero" [] p = "zero" -> "intx"
      [] p = "intx" -> "inty" [] p = "inty" -> "smooth"
      [] p = "smooth" -> "emit" [] p = "emit" -> "check"

\* C25: an active tick goes once through drain, X axis, Y axis, smoothing
\* and emission, in this order; its drain leaves the accumulator at (0,0)
\* and the pair it emits is the pair its smoothing returned.  The last
\* part fails: the emission re-reads self.joystick_x, self.joystick_y,
\* which another thread may have written since.
C25_ActiveTickOrderAndPair ==
    /\ [][\A t \in Threads :
            (InActiveTick(t) /\ threads'[t].pc # threads[t].pc)
               => threads'[t].pc = NextInTick(threads[t].pc)]_vars
    /\ [][\A t \in Threads :
            (InActiveTick(t) /\ DrainZero(t)) => (raw_dx' = 0 /\ raw_dy' = 0)]_vars
    /\ [][\A t \in Threads : Emit(t) => sink' = threads[t].out]_vars

C27_PauseIgnoredInFree ==
    /\ [][PauseIgnored =>
            UNCHANGED <<running, paused, cursor_locked, axis_vars, sink>>]_vars
    /\ [][(~paused /\ paused') => (running /\ running')]_vars
    /\ [][(paused /\ ~paused') => running']_vars

\* C27 witness: a pause toggle was issued in Free, after a stop that left
\* a tick's residue in the accumulator, and the state is as the stop left
\* it
C27_Witness ==
    /\ hist.last_cmd = "stop" /\ gui_pc = "idle" /\ ~running
    /\ budget.cmds = CoreCmds - 3
    /\ raw_x # 0 /\ ~paused /\ sink = Zero

\* C28: the deadzone and the curve a tick shapes its Y axis with are the
\* ones it shaped its X axis with: neither changes while a tick is
\* between the two.  (Sensitivity and decay are read once, into locals;
\* each flag and the smoothing factor are read once per tick.)  The
\* deadzone and the interpolant are read again at every use.
C28_TickUsesOneConfiguration ==
    [][(\E t \in Threads : threads[t].pc = "inty")
          => UNCHANGED <<deadzone, spline>>]_vars

\* C29: the acquisition strategy follows the outcome of the last
\* confinement attempt: once a start or a resume has completed, a tick
\* that begins in the active state drains the raw accumulator only if the
\* pointer is confined (and polls otherwise).  control_loop chooses once,
\* when the thread starts, and a resume selects nothing.
C29_StrategyFollowsConfinement ==
    [][\A t \in Threads :
          (/\ LoopCheck(t)
           /\ gui_pc = "idle" /\ hist.last_cmd \in {"start", "resume"}
           /\ running /\ ~paused
           /\ threads'[t].pc = "acq")
          => cursor_locked]_vars

\* shaped(|raw|): the values the response curve may give a magnitude
ShapedMagnitudes(raw) == ResponseValues(Abs(raw), deadzone, spline)

\* C30 as stated: on both axes the value handed to smoothing is
\* sign(raw) * shaped(|raw|), negated when the axis is inverted.  It
\* fails on the Y axis, which is shaped from -raw_y.
C30_BothAxesAlike ==
    [][\A t \in Threads :
          /\ (IntegrateX(t) /\ x_axis_enabled) =>
                \E s \in ShapedMagnitudes(raw_x') :
                   threads'[t].jx = IF invert_x THEN -(Sgn(raw_x') * s)
                                    ELSE Sgn(raw_x') * s
          /\ (IntegrateY(t) /\ y_axis_enabled) =>
                \E s \in ShapedMagnitudes(raw_y') :
                   threads'[t].jy = IF invert_y THEN -(Sgn(raw_y') * s)
                                    ELSE Sgn(raw_y') * s]_vars

\* C30 amended: the X axis hands sign(raw_x) * shaped(|raw_x|) to
\* smoothing and the Y axis sign(-raw_y) * shaped(|raw_y|), each negated
\* when the axis's inversion flag is on (sign is -1 below 0, else 1).
C30_YShapedFromNegatedAccumulator ==
    [][\A t \in Threads :
          /\ (IntegrateX(t) /\ x_axis_enabled) =>
                \E s \in ShapedMagnitudes(raw_x') :
                   threads'[t].jx = IF invert_x THEN -(Sgn(raw_x') * s)
                                    ELSE Sgn(raw_x') * s
          /\ (IntegrateY(t) /\ y_axis_enabled) =>
                \E s \in ShapedMagnitudes(raw_y') :
                   threads'[t].jy = IF invert_y THEN -(Sgn(-raw_y') * s)
                                    ELSE Sgn(-raw_y') * s]_vars

\* C30 witness: a tick has shaped both axes from negative accumulators,
\* the Y axis inverted and the X axis not
C30_Witness ==
    \E t \in Threads :
       /\ threads[t].pc = "smooth"
       /\ invert_y /\ ~invert_x
       /\ raw_x < 0 /\ raw_y < 0
       /\ threads[t].jx < 0 /\ threads[t].jy < 0

\* the moving average of 4.5, written out, in hundredths of the factor
C31_Expected(prev, shaped, f) ==
    LET sum == prev * f + shaped * (100 - f)
    IN  IF sum < 0 THEN -((-sum) \div 100) ELSE sum \div 100

\* C31: the smoothing of an active tick stores, on each axis,
\* smoothed_prev * f + shaped * (1 - f); with f = 0 it stores the shaped
\* value whatever the buffer held, and the tick emits that shaped pair.
\* The last part fails: the emission reads self.joystick_x,
\* self.joystick_y, which another thread may have written since.
C31_SmoothingAndPassThrough ==
    /\ [][\A t \in Threads :
            Smooth(t) =>
               /\ smooth_x' = C31_Expected(smooth_x, threads[t].jx, smoothing)
               /\ smooth_y' = C31_Expected(smooth_y, threads[t].jy, smoothing)
               /\ smoothing = 0 =>
                     (smooth_x' = threads[t].jx /\ smooth_y' = threads[t].jy)]_vars
    /\ [][\A t \in Threads :
            (Emit(t) /\ threads[t].thru # <<>>) => sink' = threads[t].thru]_vars

\* C33: at most one control loop is inside the tick loop.  A start that
\* follows a stop before the previous loop has read running = False
\* leaves two.
C33_SingleControlLoop == Cardinality({t \in Threads : InLoop(t)}) <= 1

\* C34: what an active tick takes from the DeltaAccumulator holds nothing
\* that was delivered while the state was Free (hist.free is the part of
\* the accumulator delivered with running false).  process_raw_input
\* accumulates in every state and a start does not clear the accumulator.
C34_FreeDeltasNeverIntegrated ==
    [][\A t \in Threads :
          (DrainZero(t) /\ threads[t].act) => hist.free = <<0, 0>>]_vars

\* C35: when the window is destroyed running is false, the pointer is
\* not confined, the smoothing buffers are 0 and the sink holds the (0,0)
\* the stop issued; the stop transition has run once if the quit came in
\* Locked or Paused and never twice.  The buffers and the sink fail: a
\* tick in flight at the quit writes both after the stop.
C35_QuitStopsBeforeDestroy ==
    [][on_closing =>
          /\ ~running' /\ ~cursor_locked'
          /\ smooth_x' = 0 /\ smooth_y' = 0
          /\ sink' = Zero
          /\ hist'.quit.stops = IF hist.quit.from = "Free" THEN 0 ELSE 1]_vars

====
